---- MODULE Spec2Model ----
(***************************************************************************)
(* A model of amazon_discount_finder.py: the discount evaluator            *)
(* (filter_discounted_items / is_reasonable_discount), the PA-API client's *)
(* retry loop (call_pa_api), the result store (load_previous_results /     *)
(* save_results), the run loop of main, the text of post_to_twitter, the   *)
(* module's startup code and load_search_config.                           *)
(*                                                                         *)
(* Prices are natural numbers (yen).  The code computes discount_percent   *)
(* in binary floating point; the model compares the exact fractions by     *)
(* cross-multiplication, (o - c) * 100 >= p * o.                           *)
(***************************************************************************)
EXTENDS Integers, Sequences, FiniteSets, TLC

\* ------------------------------------------------------------ constants
MIN_DISCOUNT_PERCENT == 15
MAX_DISCOUNT_PERCENT == 80
API_WAIT_TIME == 3
MAX_RETRIES == 3
MAX_RESULTS_STORED == 200

\* ------------------------------------------------------------ bounds
\* Largest price amount of a detail drawn for the evaluator.
MaxPrice == 12
\* Runs of the script, one after another, in a behaviour.
MaxRuns == 2
\* API calls that return None, and publish attempts that fail, in a behaviour.
MaxApiFailures == 1
MaxPostFailures == 1
\* save_results calls in a row, and new records per call, for the store alone.
MaxSaves == 3
MaxNew == 3

VARIABLES
    product_info,   \* evaluator: the detail under evaluation
    evaluated,      \* evaluator: outcome of the evaluation ("none" before)
    min_discount,   \* config.get('min_discount_percent')
    max_discount,   \* config.get('max_discount_percent')
    attempt,        \* call_pa_api: the loop variable of line 227
    api_pc,         \* call_pa_api: "loop" or "returned"
    requests,       \* call_pa_api: responses received, in order, this call
    sleeps,         \* call_pa_api: time.sleep arguments, in order, this call
    api_result,     \* call_pa_api: "pending", "None" or "data"
    DRY_RUN,        \* --dry-run was given to this run
    threads_cfg,    \* "off": not threads_ready; "token": THREADS_LONG_LIVED_TOKEN
                    \* is set; "app": only the app id and secret are
    search_results, \* the marketplace: the ASINs each search task returns
    results_file,   \* the content of RESULTS_FILE
    pc,             \* main: the position in the run
    run,            \* the number of the run under way
    twitter_client, \* main: setup_twitter_api() returned a client
    posted_asins,   \* main: the set load_previous_results returned, and grown
    new_results,    \* main: the records of this run
    task,           \* main: index of search_item in config['search_items']
    discounted_items, \* main: filter_discounted_items' result for the task
    idx,            \* main: index of item in discounted_items
    posted_to_twitter, \* main: the local of line 857
    posted_to_threads, \* main: the local of line 858
    log,            \* history: what this run did so far, in order
    loaded_asins,   \* history: posted_asins as load_previous_results returned it
    aborted,        \* history: this run ended in main's except clause
    clean,          \* history: no API call of this run failed, and no abort
    prev_clean,     \* history: the same of the run before, once complete
    api_failures,   \* history: API calls that returned None so far
    post_failures,  \* history: publish attempts that failed so far
    prev_failed,    \* history: ASINs the run before recorded, every attempt failed
    pre_file,       \* history: RESULTS_FILE when the run (the save call) began
    post_product,   \* post_to_twitter: the record to post
    post,           \* post_to_twitter: the text handed to create_tweet
    environ,        \* startup: which environment variables are set
    argv,           \* startup: the command line flags given
    DEBUG_MODE,     \* startup: the module global of line 15
    boot_pc,        \* startup: the position in the module's top-level code
    config_file,    \* the content of CONFIG_FILE
    config,         \* load_search_config: the configuration returned
    warnings,       \* load_search_config: logger.warning calls, in order
    search_index    \* search_items: the SearchIndex of each request, in order

evalVars == <<product_info, evaluated>>
cfgVars == <<min_discount, max_discount>>
apiVars == <<attempt, api_pc, requests, sleeps, api_result>>
envVars == <<threads_cfg, search_results>>
mainVars == <<DRY_RUN, pc, run, twitter_client, posted_asins, new_results, task,
              discounted_items, idx, posted_to_twitter, posted_to_threads>>
histVars == <<log, loaded_asins, aborted, clean, prev_clean, api_failures,
              post_failures>>
runVars == <<envVars, results_file, mainVars, histVars>>
memVars == <<prev_failed, pre_file>>
postVars == <<post_product, post>>
bootVars == <<environ, argv, DEBUG_MODE, boot_pc>>
confVars == <<config_file, config, warnings, search_index>>
sideVars == <<postVars, bootVars, confVars>>
vars == <<evalVars, cfgVars, apiVars, runVars, memVars, sideVars>>

\* ------------------------------------------------------------ details
\* A price field of a listing: present with an amount, absent, or present
\* with a value float() cannot convert.
Amount(n) == [kind |-> "amount", v |-> n]
AbsentField == [kind |-> "absent", v |-> 0]
BadField == [kind |-> "bad", v |-> 0]

PriceFields == {Amount(n) : n \in 0..MaxPrice} \cup {AbsentField, BadField}

\* MerchantInfo.Name of the first listing, by what the test at line 379
\* sees of it: equal to "amazon" ignoring case, containing "amazon.co.jp",
\* any other name, or no name at all.
MerchantNames == {"amazon", "has_amazon_co_jp", "other", "absent"}

\* The first listing of a detail response (get_product_info's product).
Details == [merchant : MerchantNames, current : PriceFields, original : PriceFields]

is_amazon_merchant(info) ==
    IF info.merchant = "absent" THEN FALSE
    ELSE info.merchant = "amazon" \/ info.merchant = "has_amazon_co_jp"

\* discount_percent >= p, for discount_percent = (o - c) / o * 100, o > 0.
PercentAtLeast(c, o, p) == (o - c) * 100 >= p * o

\* is_reasonable_discount without the test of line 399.
is_reasonable_discount_no_ratio(current_price, original_price) ==
    IF original_price <= current_price THEN FALSE
    ELSE IF PercentAtLeast(current_price, original_price, MAX_DISCOUNT_PERCENT) THEN FALSE
    ELSE TRUE

is_reasonable_discount(current_price, original_price) ==
    IF original_price <= current_price THEN FALSE
    ELSE IF PercentAtLeast(current_price, original_price, MAX_DISCOUNT_PERCENT) THEN FALSE
    ELSE IF original_price > current_price * 3 THEN FALSE
    ELSE TRUE

\* One iteration of filter_discounted_items' loop body on a fetched detail:
\* "skip" (continue), "raise" (float() raised), "reject" (the test at line
\* 448 failed) or "accept" (product_data appended).
Skip == [tag |-> "skip", current_price |-> 0, original_price |-> 0]
Raise == [tag |-> "raise", current_price |-> 0, original_price |-> 0]

\* evaluate without the original <= current test of line 439 and with the
\* minimum as the only test of line 448.
evaluate_min_only(info, min_percent) ==
    IF ~is_amazon_merchant(info) THEN Skip
    ELSE IF info.current.kind = "bad" THEN Raise
    ELSE IF info.original.kind = "bad" THEN Raise
    ELSE IF info.current.kind = "absent" \/ info.original.kind = "absent" THEN Skip
    ELSE IF PercentAtLeast(info.current.v, info.original.v, min_percent)
         THEN [tag |-> "accept", current_price |-> info.current.v,
               original_price |-> info.original.v]
         ELSE [tag |-> "reject", current_price |-> info.current.v,
               original_price |-> info.original.v]

evaluate(info, min_percent) ==
    IF ~is_amazon_merchant(info) THEN Skip
    ELSE IF info.current.kind = "bad" THEN Raise
    ELSE IF info.original.kind = "bad" THEN Raise
    ELSE IF info.current.kind = "absent" \/ info.original.kind = "absent" THEN Skip
    ELSE IF info.original.v <= info.current.v THEN Skip
    ELSE IF PercentAtLeast(info.current.v, info.original.v, min_percent)
            /\ is_reasonable_discount(info.current.v, info.original.v)
         THEN [tag |-> "accept", current_price |-> info.current.v,
               original_price |-> info.original.v]
         ELSE [tag |-> "reject", current_price |-> info.current.v,
               original_price |-> info.original.v]

\* ------------------------------------------------------------ call_pa_api
\* What one requests.post of line 232 can come to:
\*   ok          status 200, JSON body without "Errors"
\*   errors      status 200, JSON body with an "Errors" field
\*   rate_limit  status 429
\*   bad_status  any other status
\*   transport   requests.exceptions.RequestException
\*   bad_json    response.json() raises JSONDecodeError
\*   unexpected  any other exception (a body that is no JSON object)
Responses == {"ok", "errors", "rate_limit", "bad_status", "transport",
              "bad_json", "unexpected"}

RECURSIVE Pow2(_)
Pow2(n) == IF n = 0 THEN 1 ELSE 2 * Pow2(n - 1)

\* The sleep of the finally clause, lines 282-285.
FinallySleep(a) == IF a < MAX_RETRIES - 1 THEN <<API_WAIT_TIME>> ELSE <<>>

\* One iteration of the loop of line 227 at attempt a on response r: what
\* the iteration does next ("continue", "return_data", "return_none") and the
\* sleeps it takes, the finally clause included.
\* AttemptStep giving up on the first failure that is no rate limit.
AttemptStep_no_retry(a, r) ==
    IF r = "rate_limit"
    THEN [next |-> "continue",
          slept |-> <<API_WAIT_TIME * Pow2(a)>> \o FinallySleep(a)]
    ELSE IF r = "ok"
    THEN [next |-> "return_data", slept |-> FinallySleep(a)]
    ELSE [next |-> "return_none", slept |-> FinallySleep(a)]

AttemptStep(a, r) ==
    IF r = "rate_limit"
    THEN [next |-> "continue",
          slept |-> <<API_WAIT_TIME * Pow2(a)>> \o FinallySleep(a)]
    ELSE IF r = "ok"
    THEN [next |-> "return_data", slept |-> FinallySleep(a)]
    ELSE IF a < MAX_RETRIES - 1
    THEN [next |-> "continue", slept |-> <<API_WAIT_TIME>> \o FinallySleep(a)]
    ELSE [next |-> "return_none", slept |-> FinallySleep(a)]

\* call_pa_api as a function of the responses its requests get.
RECURSIVE call_from(_, _)
call_from(a, resps) ==
    IF a >= MAX_RETRIES THEN "None"
    ELSE LET s == AttemptStep(a, resps[a + 1])
         IN  IF s.next = "continue" THEN call_from(a + 1, resps)
             ELSE IF s.next = "return_data" THEN "data" ELSE "None"

call_pa_api(resps) == call_from(0, resps)

\* What a caller of call_pa_api can get back.
ApiOutcomes == {call_pa_api(resps) : resps \in [1..MAX_RETRIES -> Responses]}

ApiIdle ==
    /\ attempt = 0
    /\ api_pc = "loop"
    /\ requests = <<>>
    /\ sleeps = <<>>
    /\ api_result = "pending"

\* The body of the for loop, one attempt.
ApiAttempt(r) ==
    /\ api_pc = "loop"
    /\ attempt < MAX_RETRIES
    /\ LET s == AttemptStep(attempt, r)
       IN  /\ requests' = Append(requests, r)
           /\ sleeps' = sleeps \o s.slept
           /\ IF s.next = "continue"
              THEN /\ attempt' = attempt + 1
                   /\ UNCHANGED <<api_pc, api_result>>
              ELSE /\ api_pc' = "returned"
                   /\ api_result' = IF s.next = "return_data" THEN "data" ELSE "None"
                   /\ UNCHANGED attempt
    /\ UNCHANGED <<evalVars, cfgVars, runVars, memVars, sideVars>>

\* The loop ran out of attempts: return None, line 287.
ApiExhausted ==
    /\ api_pc = "loop"
    /\ attempt >= MAX_RETRIES
    /\ api_pc' = "returned"
    /\ api_result' = "None"
    /\ UNCHANGED <<attempt, requests, sleeps, evalVars, cfgVars, runVars, memVars,
                   sideVars>>

\* The variables of the other functions, for a specification that leaves
\* them alone.
PostIdle ==
    /\ post_product = <<>>
    /\ post = <<>>

BootIdle ==
    /\ environ = <<>>
    /\ argv = <<>>
    /\ DEBUG_MODE = FALSE
    /\ boot_pc = "idle"

ConfIdle ==
    /\ config_file = <<>>
    /\ config = <<>>
    /\ warnings = <<>>
    /\ search_index = <<>>

SideIdle == PostIdle /\ BootIdle /\ ConfIdle

MemIdle ==
    /\ prev_failed = {}
    /\ pre_file = results_file

EvalIdle ==
    /\ product_info = [merchant |-> "absent", current |-> AbsentField,
                       original |-> AbsentField]
    /\ evaluated = [tag |-> "none", current_price |-> 0, original_price |-> 0]

\* The run's variables, for the specifications of one function.
RunIdle ==
    /\ DRY_RUN = FALSE
    /\ threads_cfg = "off"
    /\ search_results = <<>>
    /\ results_file = [kind |-> "absent", items |-> <<>>]
    /\ pc = "idle"
    /\ run = 1
    /\ twitter_client = FALSE
    /\ posted_asins = {}
    /\ new_results = <<>>
    /\ task = 1
    /\ discounted_items = <<>>
    /\ idx = 1
    /\ posted_to_twitter = FALSE
    /\ posted_to_threads = FALSE
    /\ log = <<>>
    /\ loaded_asins = {}
    /\ aborted = FALSE
    /\ clean = TRUE
    /\ prev_clean = FALSE
    /\ api_failures = 0
    /\ post_failures = 0
    /\ MemIdle

InitApi ==
    /\ ApiIdle
    /\ SideIdle
    /\ EvalIdle
    /\ RunIdle
    /\ min_discount = MIN_DISCOUNT_PERCENT
    /\ max_discount = MAX_DISCOUNT_PERCENT

NextApi ==
    \/ \E r \in Responses : ApiAttempt(r)
    \/ ApiExhausted

SpecApi == InitApi /\ [][NextApi]_vars

\* ------------------------------------------------------------ marketplace
Product(m, c, o) == [merchant |-> m, current |-> c, original |-> o]

\* The details GetItems returns, by ASIN (1..5).
Catalogue ==
    << Product("amazon", Amount(5), Amount(10)),            \* 1: 50% off
       Product("amazon", Amount(8), Amount(10)),            \* 2: 20% off
       Product("has_amazon_co_jp", Amount(4), Amount(5)),   \* 3: 20% off
       Product("amazon", BadField, Amount(10)),             \* 4: Amount no number
       Product("amazon", Amount(3), Amount(10)) >>          \* 5: 70% off, over 3x

\* config['search_items'], in order.
SearchTasks == << "Electronics", "HomeAndKitchen" >>

\* What SearchItems can return for one task.
ResultLists == { <<>>, <<2, 5, 1>>, <<3, 2>>, <<4, 1>> }

\* ------------------------------------------------------------ result store
AbsentFile == [kind |-> "absent", items |-> <<>>]
BlankFile == [kind |-> "blank", items |-> <<>>]
CorruptFile == [kind |-> "corrupt", items |-> <<>>]
ListFile(recs) == [kind |-> "list", items |-> recs]

\* A record as main appends it to new_results, lines 882-887.
Recorded(product, tw, th, at) ==
    [asin |-> product.asin, current_price |-> product.current_price,
     original_price |-> product.original_price,
     posted_to_twitter |-> tw, posted_to_threads |-> th, posted_at |-> at]

\* A record of an earlier run.
OldRecord(a) ==
    Recorded([asin |-> a, current_price |-> 8, original_price |-> 10], TRUE, TRUE, 0)

\* A store at its cap, its oldest record that of ASIN 1.
FullStore ==
    [i \in 1..MAX_RESULTS_STORED |->
        IF i = MAX_RESULTS_STORED THEN OldRecord(1) ELSE OldRecord(100 + i)]

\* The files a run can find: none, an empty one, one that does not parse,
\* and lists earlier runs wrote.
SmallFiles == {AbsentFile, BlankFile, CorruptFile, ListFile(<<OldRecord(1)>>)}
InitialFiles == SmallFiles \cup {ListFile(FullStore)}

Asins(recs) == {recs[i].asin : i \in DOMAIN recs}

\* load_previous_results: the set it returns and the file it leaves.
load_previous_results(file) ==
    IF file.kind = "absent" THEN [posted |-> {}, file |-> ListFile(<<>>)]
    ELSE IF file.kind = "list" THEN [posted |-> Asins(file.items), file |-> file]
    ELSE [posted |-> {}, file |-> file]

\* The cut of line 790 taken from the wrong end: the oldest records kept.
Truncate_tail(recs) ==
    IF Len(recs) > MAX_RESULTS_STORED
    THEN SubSeq(recs, Len(recs) - MAX_RESULTS_STORED + 1, Len(recs))
    ELSE recs

\* Truncate without the cut of lines 789-790.
Truncate_off(recs) == recs

Truncate(recs) ==
    IF Len(recs) > MAX_RESULTS_STORED THEN SubSeq(recs, 1, MAX_RESULTS_STORED)
    ELSE recs

\* save_results reading a file that does not parse as an empty list.
save_results_repair(file, new) ==
    [ok |-> TRUE, file |-> ListFile(Truncate(new \o file.items)),
     combined |-> Len(new) + Len(file.items)]

\* save_results: what it returns, the file it leaves, and the length of
\* combined_results before the cut.
save_results(file, new) ==
    IF file.kind = "corrupt" THEN [ok |-> FALSE, file |-> file, combined |-> 0]
    ELSE LET existing_results == IF file.kind = "list" THEN file.items ELSE <<>>
             combined_results == new \o existing_results
         IN  [ok |-> TRUE, file |-> ListFile(Truncate(combined_results)),
              combined |-> Len(combined_results)]

\* ------------------------------------------------------------ filter
\* x's discount_percent is greater than y's.
HigherPercent(x, y) ==
    (x.original_price - x.current_price) * y.original_price
        > (y.original_price - y.current_price) * x.original_price

\* A sort that puts a record before the records of equal discount_percent
\* already placed: highest first, but not stable.
RECURSIVE InsertSorted_unstable(_, _)
InsertSorted_unstable(sorted, x) ==
    IF sorted = <<>> THEN <<x>>
    ELSE IF ~HigherPercent(Head(sorted), x) THEN <<x>> \o sorted
    ELSE <<Head(sorted)>> \o InsertSorted_unstable(Tail(sorted), x)

\* list.sort(key=discount_percent, reverse=True): stable, highest first.
RECURSIVE InsertSorted(_, _)
InsertSorted(sorted, x) ==
    IF sorted = <<>> THEN <<x>>
    ELSE IF HigherPercent(x, Head(sorted)) THEN <<x>> \o sorted
    ELSE <<Head(sorted)>> \o InsertSorted(Tail(sorted), x)

RECURSIVE SortByPercent(_)
SortByPercent(recs) ==
    IF recs = <<>> THEN <<>>
    ELSE InsertSorted(SortByPercent(SubSeq(recs, 1, Len(recs) - 1)), recs[Len(recs)])

\* filter_discounted_items from item i on: fetched[i] is what get_product_info's
\* call_pa_api returns for item i.  raised: float() raised and the exception
\* left the function; failed: the fetches that returned None.
RECURSIVE filter_from(_, _, _, _, _, _)
filter_from(i, items, fetched, min_percent, acc, failed) ==
    IF i > Len(items)
    THEN [raised |-> FALSE, out |-> SortByPercent(acc), failed |-> failed]
    ELSE IF fetched[i] = "None"
    THEN filter_from(i + 1, items, fetched, min_percent, acc, failed + 1)
    ELSE LET r == evaluate(Catalogue[items[i]], min_percent)
         IN  IF r.tag = "raise"
             THEN [raised |-> TRUE, out |-> <<>>, failed |-> failed]
             ELSE IF r.tag = "accept"
             THEN filter_from(i + 1, items, fetched, min_percent,
                      Append(acc, [asin |-> items[i],
                                   current_price |-> r.current_price,
                                   original_price |-> r.original_price]), failed)
             ELSE filter_from(i + 1, items, fetched, min_percent, acc, failed)

filter_discounted_items(items, fetched, min_percent) ==
    filter_from(1, items, fetched, min_percent, <<>>, 0)

\* ------------------------------------------------------------ publishing
\* What a post function comes to: the value it returns and the network
\* requests it made, in order.
Outcome(ok, calls) == [ok |-> ok, calls |-> calls]

\* post_to_twitter(client, product) for a client: True in a dry run (line
\* 531) before any request; else the outcome of create_tweet, an exception
\* being caught and turned into False (line 545).
post_to_twitter(dry_run) ==
    IF dry_run THEN {Outcome(TRUE, <<>>)}
    ELSE {Outcome(ok, <<"create_tweet">>) : ok \in BOOLEAN}

\* get_threads_access_token, lines 547-586: the long-lived token without a
\* request, else the token request, which can fail (None).
get_threads_access_token(cfg) ==
    IF cfg = "token" THEN {Outcome(TRUE, <<>>)}
    ELSE {Outcome(ok, <<"access_token">>) : ok \in BOOLEAN}

\* post_to_threads after the token, lines 601-673: True in a dry run (line
\* 619); else the container request and, if that gave an id, the publish
\* request.
threads_requests(dry_run) ==
    IF dry_run THEN {Outcome(TRUE, <<>>)}
    ELSE {Outcome(FALSE, <<"threads">>)}
         \cup {Outcome(ok, <<"threads", "threads_publish">>) : ok \in BOOLEAN}

\* post_to_threads(product) when threads_ready: the token first (lines
\* 596-599), no token returning False.
post_to_threads(cfg, dry_run) ==
    UNION {IF t.ok
           THEN {Outcome(r.ok, t.calls \o r.calls) : r \in threads_requests(dry_run)}
           ELSE {Outcome(FALSE, t.calls)} : t \in get_threads_access_token(cfg)}

\* ------------------------------------------------------------ main
\* An entry of the history: e is "search" (n the task), "request" (a
\* network request of a post function, target its name, n the ASIN),
\* "publish" (n the ASIN), "sleep" or "save" (n the length of
\* combined_results before the cut).
Ev(e, target, n, ok) == [e |-> e, target |-> target, n |-> n, ok |-> ok]
\* No time.sleep(3) after a post function: lines 868 and 879 left out.
Slept_off == Ev("no_sleep", "", 0, TRUE)
\* time.sleep(3) after a post function, lines 868 and 879.
Slept == Ev("sleep", "", 0, TRUE)
Requested(calls, a) == [i \in DOMAIN calls |-> Ev("request", calls[i], a, TRUE)]

item == discounted_items[idx]

InitRun ==
    /\ EvalIdle
    /\ ApiIdle
    /\ SideIdle
    /\ min_discount = MIN_DISCOUNT_PERCENT
    /\ max_discount = MAX_DISCOUNT_PERCENT
    /\ DRY_RUN \in BOOLEAN
    /\ threads_cfg \in {"off", "token", "app"}
    /\ search_results \in [1..Len(SearchTasks) -> ResultLists]
    /\ results_file \in InitialFiles
    \* The store at its cap is explored with one environment and marketplace
    \* only (its 200 records make every state costly).
    /\ results_file \notin SmallFiles =>
          (~DRY_RUN /\ threads_cfg = "token" /\ search_results = <<<<3, 2>>, <<2, 5, 1>>>>)
    /\ pc = "setup"
    /\ run = 1
    /\ twitter_client = FALSE
    /\ posted_asins = {}
    /\ new_results = <<>>
    /\ task = 1
    /\ discounted_items = <<>>
    /\ idx = 1
    /\ posted_to_twitter = FALSE
    /\ posted_to_threads = FALSE
    /\ log = <<>>
    /\ loaded_asins = {}
    /\ aborted = FALSE
    /\ clean = TRUE
    /\ prev_clean = FALSE
    /\ api_failures = 0
    /\ post_failures = 0
    /\ MemIdle

\* twitter_client = setup_twitter_api(), line 817: None when a credential
\* is missing or the authentication test fails, else a client.
SetupTwitter ==
    /\ pc = "setup"
    /\ twitter_client' \in BOOLEAN
    /\ pc' = "load"
    /\ UNCHANGED <<evalVars, cfgVars, apiVars, sideVars, memVars,
                   envVars, results_file, histVars,
                   DRY_RUN, run, posted_asins, new_results, task, discounted_items,
                   idx, posted_to_twitter, posted_to_threads>>

\* posted_asins = load_previous_results(), line 820.
LoadPreviousResults ==
    /\ pc = "load"
    /\ LET l == load_previous_results(results_file)
       IN  /\ posted_asins' = l.posted
           /\ loaded_asins' = l.posted
           /\ results_file' = l.file
    /\ pc' = "search"
    /\ UNCHANGED <<evalVars, cfgVars, apiVars, sideVars, memVars,
                   envVars, DRY_RUN, run, twitter_client,
                   new_results, task, discounted_items, idx, posted_to_twitter,
                   posted_to_threads, log, aborted, clean, prev_clean,
                   api_failures, post_failures>>

\* items = search_items(keyword, category), lines 826-836.
SearchItems ==
    /\ pc = "search"
    /\ task <= Len(SearchTasks)
    /\ \E out \in ApiOutcomes :
        /\ out = "None" => api_failures < MaxApiFailures
        /\ api_failures' = IF out = "None" THEN api_failures + 1 ELSE api_failures
        /\ clean' = (clean /\ out # "None")
        /\ IF out = "None" \/ search_results[task] = <<>>
           THEN /\ task' = task + 1
                /\ log' = Append(log, Ev("search", "", task, FALSE))
                /\ UNCHANGED pc
           ELSE /\ pc' = "filter"
                /\ log' = Append(log, Ev("search", "", task, TRUE))
                /\ UNCHANGED task
    /\ UNCHANGED <<evalVars, cfgVars, apiVars, sideVars, memVars,
                   envVars, results_file, DRY_RUN, run,
                   twitter_client, posted_asins, new_results, discounted_items,
                   idx, posted_to_twitter, posted_to_threads, loaded_asins,
                   aborted, prev_clean, post_failures>>

\* The except clause of main with a save of the run's records in it.
main_except_saved(file, new) == save_results(file, new).file

\* except Exception of main, lines 898-899: the error is logged and main
\* returns; the file is what it was, the records of the run are dropped.
main_except(file, new) == file

\* discounted_items = filter_discounted_items(items, min_discount), lines
\* 839-845; an exception leaving it is caught at line 899.
FilterDiscountedItems ==
    /\ pc = "filter"
    /\ \E fetched \in [1..Len(search_results[task]) -> ApiOutcomes] :
        LET f == filter_discounted_items(search_results[task], fetched, min_discount)
        IN  /\ api_failures + f.failed <= MaxApiFailures
            /\ api_failures' = api_failures + f.failed
            /\ clean' = (clean /\ f.failed = 0 /\ ~f.raised)
            /\ IF f.raised
               THEN /\ pc' = "done"
                    /\ aborted' = TRUE
                    /\ results_file' = main_except(results_file, new_results)
                    /\ UNCHANGED <<task, discounted_items, idx>>
               ELSE IF f.out = <<>>
               THEN /\ task' = task + 1
                    /\ pc' = "search"
                    /\ UNCHANGED <<aborted, discounted_items, idx, results_file>>
               ELSE /\ discounted_items' = f.out
                    /\ idx' = 1
                    /\ pc' = "item"
                    /\ UNCHANGED <<aborted, task, results_file>>
    /\ UNCHANGED <<evalVars, cfgVars, apiVars, sideVars, memVars,
                   envVars, DRY_RUN, run,
                   twitter_client, posted_asins, new_results, posted_to_twitter,
                   posted_to_threads, log, loaded_asins, prev_clean, post_failures>>

\* The for loop of line 848 is over: the next search_item.
NextTask ==
    /\ pc = "item"
    /\ idx > Len(discounted_items)
    /\ task' = task + 1
    /\ pc' = "search"
    /\ UNCHANGED <<evalVars, cfgVars, apiVars, sideVars, memVars,
                   envVars, results_file, histVars,
                   DRY_RUN, run, twitter_client, posted_asins, new_results,
                   discounted_items, idx, posted_to_twitter, posted_to_threads>>

\* if item['asin'] in posted_asins: continue, lines 850-852.
SkipPosted ==
    /\ pc = "item"
    /\ idx <= Len(discounted_items)
    /\ item.asin \in posted_asins
    /\ idx' = idx + 1
    /\ UNCHANGED <<evalVars, cfgVars, apiVars, sideVars, memVars,
                   envVars, results_file, histVars,
                   pc, DRY_RUN, run, twitter_client, posted_asins, new_results, task,
                   discounted_items, posted_to_twitter, posted_to_threads>>

\* A new item: lines 854-858.
NewItem ==
    /\ pc = "item"
    /\ idx <= Len(discounted_items)
    /\ item.asin \notin posted_asins
    /\ posted_to_twitter' = FALSE
    /\ posted_to_threads' = FALSE
    /\ pc' = "twitter"
    /\ UNCHANGED <<evalVars, cfgVars, apiVars, sideVars, memVars,
                   envVars, results_file, histVars,
                   DRY_RUN, run, twitter_client, posted_asins, new_results, task,
                   discounted_items, idx>>

\* The test of line 871 made to depend on the Twitter attempt's success.
ThreadsConfigured_after_twitter == threads_cfg # "off" /\ posted_to_twitter

\* The test of line 860 and of line 871.
TwitterConfigured == twitter_client
ThreadsConfigured == threads_cfg # "off"

\* if twitter_client: post_to_twitter, then time.sleep(3); lines 860-868.
PostToTwitter ==
    /\ pc = "twitter"
    /\ TwitterConfigured
    /\ \E o \in post_to_twitter(DRY_RUN) :
        /\ ~o.ok => post_failures < MaxPostFailures
        /\ post_failures' = IF o.ok THEN post_failures ELSE post_failures + 1
        /\ posted_to_twitter' = o.ok
        /\ log' = log \o Requested(o.calls, item.asin)
                       \o <<Ev("publish", "twitter", item.asin, o.ok), Slept>>
    /\ pc' = "threads"
    /\ UNCHANGED <<evalVars, cfgVars, apiVars, sideVars, memVars,
                   envVars, results_file, DRY_RUN, run,
                   twitter_client, posted_asins, new_results, task,
                   discounted_items, idx, posted_to_threads, loaded_asins,
                   aborted, clean, prev_clean, api_failures>>

SkipTwitter ==
    /\ pc = "twitter"
    /\ ~TwitterConfigured
    /\ pc' = "threads"
    /\ UNCHANGED <<evalVars, cfgVars, apiVars, sideVars, memVars,
                   envVars, results_file, histVars,
                   DRY_RUN, run, twitter_client, posted_asins, new_results, task,
                   discounted_items, idx, posted_to_twitter, posted_to_threads>>

\* if threads_ready: post_to_threads, then time.sleep(3); lines 871-879.
PostToThreads ==
    /\ pc = "threads"
    /\ ThreadsConfigured
    /\ \E o \in post_to_threads(threads_cfg, DRY_RUN) :
        /\ ~o.ok => post_failures < MaxPostFailures
        /\ post_failures' = IF o.ok THEN post_failures ELSE post_failures + 1
        /\ posted_to_threads' = o.ok
        /\ log' = log \o Requested(o.calls, item.asin)
                       \o <<Ev("publish", "threads", item.asin, o.ok), Slept>>
    /\ pc' = "record"
    /\ UNCHANGED <<evalVars, cfgVars, apiVars, sideVars, memVars,
                   envVars, results_file, DRY_RUN, run,
                   twitter_client, posted_asins, new_results, task,
                   discounted_items, idx, posted_to_twitter, loaded_asins,
                   aborted, clean, prev_clean, api_failures>>

SkipThreads ==
    /\ pc = "threads"
    /\ ~ThreadsConfigured
    /\ pc' = "record"
    /\ UNCHANGED <<evalVars, cfgVars, apiVars, sideVars, memVars,
                   envVars, results_file, histVars,
                   DRY_RUN, run, twitter_client, posted_asins, new_results, task,
                   discounted_items, idx, posted_to_twitter, posted_to_threads>>

\* Line 888 left out.
MarkPosted_off(posted, a) == posted

\* posted_asins.add(item['asin']), line 888.
MarkPosted(posted, a) == posted \cup {a}

\* Lines 882-888: the flags and the time into the item, the item into
\* new_results, its ASIN into posted_asins.
RecordItem ==
    /\ pc = "record"
    /\ new_results' = Append(new_results,
                         Recorded(item, posted_to_twitter, posted_to_threads, run))
    /\ posted_asins' = MarkPosted(posted_asins, item.asin)
    /\ idx' = idx + 1
    /\ pc' = "item"
    /\ UNCHANGED <<evalVars, cfgVars, apiVars, sideVars, memVars,
                   envVars, results_file, histVars,
                   DRY_RUN, run, twitter_client, task, discounted_items,
                   posted_to_twitter, posted_to_threads>>

\* if new_results: save_results(...), lines 891-893.
SaveResults ==
    /\ pc = "search"
    /\ task > Len(SearchTasks)
    /\ new_results # <<>>
    /\ LET s == save_results(results_file, new_results)
       IN  /\ results_file' = s.file
           /\ log' = Append(log, Ev("save", "", s.combined, s.ok))
    /\ pc' = "done"
    /\ UNCHANGED <<evalVars, cfgVars, apiVars, sideVars, memVars,
                   envVars, DRY_RUN, run, twitter_client,
                   posted_asins, new_results, task, discounted_items, idx,
                   posted_to_twitter, posted_to_threads, loaded_asins, aborted,
                   clean, prev_clean, api_failures, post_failures>>

\* else: nothing new, line 895.
NothingNew ==
    /\ pc = "search"
    /\ task > Len(SearchTasks)
    /\ new_results = <<>>
    /\ pc' = "done"
    /\ UNCHANGED <<evalVars, cfgVars, apiVars, sideVars, memVars,
                   envVars, results_file, histVars,
                   DRY_RUN, run, twitter_client, posted_asins, new_results, task,
                   discounted_items, idx, posted_to_twitter, posted_to_threads>>

\* The process is gone: nothing of the run is left but the files.
Killed ==
    /\ pc' = "killed"
    /\ twitter_client' = FALSE
    /\ posted_asins' = {}
    /\ new_results' = <<>>
    /\ task' = 1
    /\ discounted_items' = <<>>
    /\ idx' = 1
    /\ posted_to_twitter' = FALSE
    /\ posted_to_threads' = FALSE
    /\ log' = <<>>
    /\ loaded_asins' = {}
    /\ aborted' = FALSE
    /\ clean' = FALSE
    /\ api_failures' = 0
    /\ post_failures' = 0
    /\ UNCHANGED <<evalVars, cfgVars, apiVars, sideVars, memVars, envVars,
                   DRY_RUN, run, prev_clean>>

\* The process is interrupted (a signal, a power cut) at a point of main
\* where RESULTS_FILE is not open for writing.
Interrupt ==
    /\ pc \notin {"done", "killed"}
    /\ Killed
    /\ UNCHANGED results_file

\* The process is interrupted inside save_results between open(RESULTS_FILE,
\* 'w') of line 793, which empties the file, and the end of json.dump of
\* line 794: the file is left empty or with the part of the text written
\* so far, which does not parse.
SaveInterrupted ==
    /\ pc = "search"
    /\ task > Len(SearchTasks)
    /\ new_results # <<>>
    /\ save_results(results_file, new_results).ok
    /\ results_file' \in {BlankFile, CorruptFile}
    /\ Killed

\* The records of this run that had a publish attempt and none that succeeded.
FailedRecords ==
    {k \in DOMAIN new_results :
        /\ ~new_results[k].posted_to_twitter
        /\ ~new_results[k].posted_to_threads
        /\ \E i \in DOMAIN log :
              log[i].e = "publish" /\ log[i].n = new_results[k].asin}

\* The script is started again: a new process with its own arguments, the
\* same file, environment and marketplace.
NextRun ==
    /\ pc = "done"
    /\ run < MaxRuns
    /\ run' = run + 1
    /\ DRY_RUN' \in BOOLEAN
    /\ pc' = "setup"
    /\ twitter_client' = FALSE
    /\ posted_asins' = {}
    /\ new_results' = <<>>
    /\ task' = 1
    /\ discounted_items' = <<>>
    /\ idx' = 1
    /\ posted_to_twitter' = FALSE
    /\ posted_to_threads' = FALSE
    /\ log' = <<>>
    /\ loaded_asins' = {}
    /\ aborted' = FALSE
    /\ prev_clean' = clean
    /\ clean' = TRUE
    /\ prev_failed' = {new_results[k].asin : k \in FailedRecords}
    /\ pre_file' = results_file
    /\ UNCHANGED <<evalVars, cfgVars, apiVars, sideVars,
                   envVars, results_file,
                   api_failures, post_failures>>

Next ==
    \/ SetupTwitter
    \/ LoadPreviousResults
    \/ SearchItems
    \/ FilterDiscountedItems
    \/ NextTask
    \/ SkipPosted
    \/ NewItem
    \/ PostToTwitter
    \/ SkipTwitter
    \/ PostToThreads
    \/ SkipThreads
    \/ RecordItem
    \/ SaveResults
    \/ NothingNew
    \/ Interrupt
    \/ SaveInterrupted
    \/ NextRun

Spec == InitRun /\ [][Next]_vars

\* ------------------------------------------------------------ store spec
\* save_results called again and again on the same file, as run after run does.
StoreFiles ==
    SmallFiles \cup
    {ListFile(SubSeq(FullStore, 1, n)) :
        n \in (MAX_RESULTS_STORED - MaxNew)..MAX_RESULTS_STORED}

\* The new_results of call c: k records of ASINs no call used before.
NewRecords(c, k) ==
    [i \in 1..k |->
        Recorded([asin |-> 1000 * c + i, current_price |-> 8, original_price |-> 10],
                 TRUE, FALSE, c)]

InitStore ==
    /\ EvalIdle
    /\ ApiIdle
    /\ SideIdle
    /\ min_discount = MIN_DISCOUNT_PERCENT
    /\ max_discount = MAX_DISCOUNT_PERCENT
    /\ DRY_RUN = FALSE
    /\ threads_cfg = "off"
    /\ search_results = <<>>
    /\ results_file \in StoreFiles
    /\ pc = "store"
    /\ run = 1
    /\ twitter_client = FALSE
    /\ posted_asins = {}
    /\ new_results = <<>>
    /\ task = 1
    /\ discounted_items = <<>>
    /\ idx = 1
    /\ posted_to_twitter = FALSE
    /\ posted_to_threads = FALSE
    /\ log = <<>>
    /\ loaded_asins = {}
    /\ aborted = FALSE
    /\ clean = TRUE
    /\ prev_clean = FALSE
    /\ api_failures = 0
    /\ post_failures = 0
    /\ MemIdle

\* save_results(all_results, new_results) with k new records.
SaveCall(k) ==
    /\ pc = "store"
    /\ run <= MaxSaves
    /\ LET new == NewRecords(run, k)
           s == save_results(results_file, new)
       IN  /\ results_file' = s.file
           /\ new_results' = new
           /\ log' = <<Ev("save", "", s.combined, s.ok)>>
    /\ pre_file' = results_file
    /\ run' = run + 1
    /\ UNCHANGED <<evalVars, cfgVars, apiVars, sideVars, prev_failed,
                   envVars, DRY_RUN, pc,
                   twitter_client, posted_asins, task, discounted_items, idx,
                   posted_to_twitter, posted_to_threads, loaded_asins, aborted,
                   clean, prev_clean, api_failures, post_failures>>

NextStore == \E k \in 0..MaxNew : SaveCall(k)

SpecStore == InitStore /\ [][NextStore]_vars

\* ------------------------------------------------------------ evaluator spec
MinPercents == {0, MIN_DISCOUNT_PERCENT, 50}
MaxPercents == {50, MAX_DISCOUNT_PERCENT, 90}
NotEvaluated == [tag |-> "none", current_price |-> 0, original_price |-> 0]

InitEval ==
    /\ product_info \in Details
    /\ min_discount \in MinPercents
    /\ max_discount \in MaxPercents
    /\ evaluated = NotEvaluated
    /\ ApiIdle
    /\ SideIdle
    /\ RunIdle

EvaluateDetail ==
    /\ evaluated.tag = "none"
    /\ evaluated' = evaluate(product_info, min_discount)
    /\ UNCHANGED <<product_info, cfgVars, apiVars, runVars, memVars, sideVars>>

NextEval == EvaluateDetail

SpecEval == InitEval /\ [][NextEval]_vars

\* ------------------------------------------------------------ tweet text
\* The text of post_to_twitter, lines 510-527, by the number of characters
\* (len) of each of its parts.  A record is its title's and URL's lengths
\* and its two prices.

\* title_max of line 525 and the limit named at line 523.
title_max == 50
TweetLimit == 280

\* Longest title and URL of a record drawn for the text.
MaxTitleLen == 120
MaxUrlLen == 200

RECURSIVE Digits(_)
Digits(n) == IF n < 10 THEN 1 ELSE 1 + Digits(n \div 10)

\* len(f"{n:,.0f}"): the digits and a comma before every group of three.
GroupedLen(n) == Digits(n) + (Digits(n) - 1) \div 3

\* len(f"{discount_percent:.1f}"): the tenths of a percent, rounded (half
\* up here; the code rounds the binary float), and the point.
PercentLen(c, o) == Digits((((o - c) * 2000 + o) \div (2 * o)) \div 10) + 2

\* The characters of the template outside the fields: lines 516-521 with an
\* empty title and URL, the "..." after the title included.
TemplateLen == 61

Min(a, b) == IF a < b THEN a ELSE b

\* The text with the title cut at n characters.
text_with_title(p, n) ==
    LET prices == GroupedLen(p.current_price) + GroupedLen(p.original_price)
                  + GroupedLen(p.original_price - p.current_price)
        title == Min(p.title, n)
    IN  [title |-> title, prices |-> prices, url |-> p.url, shortened |-> FALSE,
         len |-> TemplateLen + PercentLen(p.current_price, p.original_price)
                 + title + prices + p.url]

\* Lines 516-527: the title cut at 80; over 270 characters, at title_max.
tweet_text(p) ==
    LET long == text_with_title(p, 80)
    IN  IF long.len > 270
        THEN [text_with_title(p, title_max) EXCEPT !.shortened = TRUE]
        ELSE long

TitleLens == {0, 30, title_max, title_max + 1, 80, 81, MaxTitleLen}
UrlLens == {40, 75, 120, 150, MaxUrlLen}
PostPrices == {8, 10, 2490, 3980, 4980, 79800, 100000}

\* Records of every title, URL and pair of prices.
PostProducts ==
    {[title |-> t, url |-> u, current_price |-> c, original_price |-> o] :
        t \in TitleLens, u \in UrlLens, c \in PostPrices, o \in PostPrices}

NoPost == [title |-> 0, prices |-> 0, url |-> 0, shortened |-> FALSE, len |-> 0]

InitPost ==
    /\ post_product \in
          {p \in PostProducts :
              evaluate(Product("amazon", Amount(p.current_price),
                               Amount(p.original_price)),
                       MIN_DISCOUNT_PERCENT).tag = "accept"}
    /\ post = NoPost
    /\ BootIdle
    /\ ConfIdle
    /\ EvalIdle
    /\ ApiIdle
    /\ RunIdle
    /\ min_discount = MIN_DISCOUNT_PERCENT
    /\ max_discount = MAX_DISCOUNT_PERCENT

\* The records of PostProducts that filter_discounted_items accepts are
\* the ones main hands to post_to_twitter.
\* post_to_twitter up to the text handed to create_tweet.
BuildPost ==
    /\ post = NoPost
    /\ post' = tweet_text(post_product)
    /\ UNCHANGED <<post_product, evalVars, cfgVars, apiVars, runVars, memVars,
                   bootVars, confVars>>

NextPost == BuildPost

SpecPost == InitPost /\ [][NextPost]_vars

\* ------------------------------------------------------------ startup
\* The module's top-level code, lines 15-82, and the __main__ block, lines
\* 903-920, in the order Python runs them.  environ[v] is TRUE when
\* os.getenv(v) gives a non-empty value.
EnvNames ==
    {"PA_API_KEY", "PA_API_SECRET", "PARTNER_TAG",
     "TWITTER_CONSUMER_KEY", "TWITTER_CONSUMER_SECRET", "TWITTER_ACCESS_TOKEN",
     "TWITTER_ACCESS_TOKEN_SECRET",
     "THREADS_APP_ID", "THREADS_APP_SECRET", "THREADS_LONG_LIVED_TOKEN",
     "THREADS_INSTAGRAM_ACCOUNT_ID"}

\* Lines 46, 64-65 and 76-79.
pa_api_ready(env) ==
    env["PA_API_KEY"] /\ env["PA_API_SECRET"] /\ env["PARTNER_TAG"]
twitter_ready(env) ==
    /\ env["TWITTER_CONSUMER_KEY"] /\ env["TWITTER_CONSUMER_SECRET"]
    /\ env["TWITTER_ACCESS_TOKEN"] /\ env["TWITTER_ACCESS_TOKEN_SECRET"]
threads_ready(env) ==
    /\ \/ env["THREADS_LONG_LIVED_TOKEN"]
       \/ env["THREADS_APP_ID"] /\ env["THREADS_APP_SECRET"]
    /\ env["THREADS_INSTAGRAM_ACCOUNT_ID"]

\* The command line: --debug and --dry-run, given or not.
Arguments == [debug : BOOLEAN, dry_run : BOOLEAN]

InitStartup ==
    /\ environ \in [EnvNames -> BOOLEAN]
    /\ argv \in Arguments
    /\ DEBUG_MODE = FALSE
    /\ boot_pc = "import"
    /\ PostIdle
    /\ ConfIdle
    /\ EvalIdle
    /\ ApiIdle
    /\ RunIdle
    /\ min_discount = MIN_DISCOUNT_PERCENT
    /\ max_discount = MAX_DISCOUNT_PERCENT

\* Lines 52-55: without the PA-API credentials, sys.exit(1) unless DEBUG_MODE.
CredentialCheck ==
    /\ boot_pc = "import"
    /\ boot_pc' = IF ~pa_api_ready(environ) /\ ~DEBUG_MODE THEN "exit_1"
                  ELSE "imported"
    /\ UNCHANGED <<environ, argv, DEBUG_MODE, evalVars, cfgVars, apiVars, runVars,
                   memVars, postVars, confVars>>

\* Lines 904-917: the arguments are parsed and the two globals set.
ParseArgs ==
    /\ boot_pc = "imported"
    /\ DEBUG_MODE' = (DEBUG_MODE \/ argv.debug)
    /\ DRY_RUN' = (DRY_RUN \/ argv.dry_run)
    /\ boot_pc' = "main"
    /\ UNCHANGED <<environ, argv, evalVars, cfgVars, apiVars, envVars,
                   results_file, histVars, memVars, postVars, confVars,
                   pc, run, twitter_client, posted_asins, new_results, task,
                   discounted_items, idx, posted_to_twitter, posted_to_threads>>

NextStartup == CredentialCheck \/ ParseArgs

SpecStartup == InitStartup /\ [][NextStartup]_vars

\* ------------------------------------------------------------ configuration
\* The keys of VALID_CATEGORIES, lines 99-140.
CategoryKeys ==
    {"All", "Apparel", "Appliances", "Automotive", "Baby", "Beauty", "Books",
     "Classical", "Computers", "CreditCards", "DigitalMusic", "Electronics",
     "EverythingElse", "Fashion", "FashionBaby", "FashionMen", "FashionWomen",
     "ForeignBooks", "GiftCards", "GroceryAndGourmetFood", "HealthPersonalCare",
     "Hobbies", "HomeAndKitchen", "Industrial", "Jewelry", "KindleStore",
     "Kitchen", "MobileApps", "MoviesAndTV", "Music", "MusicalInstruments",
     "OfficeProducts", "PetSupplies", "Shoes", "Software", "SportsAndOutdoors",
     "ToolsAndHomeImprovement", "Toys", "VideoGames", "Watches"}

\* Every key maps to itself but the two aliases of lines 101 and 126.
VALID_CATEGORIES ==
    [l \in CategoryKeys |->
        IF l = "Apparel" THEN "Fashion"
        ELSE IF l = "Kitchen" THEN "HomeAndKitchen"
        ELSE l]

\* Longest search_items list of a configuration file drawn.
MaxTasks == 2

\* A JSON value where a number is expected, and a category of an entry.
CfgAbsent == [kind |-> "absent", v |-> 0]
CfgNum(n) == [kind |-> "num", v |-> n]
CfgText == [kind |-> "text", v |-> 0]
Category(kind, label) == [kind |-> kind, v |-> label]
Label(l) == Category("str", l)
NoCategory == Category("absent", "")

\* An entry of search_items: a dict with or without a category, or a value
\* that is no dict.
Task(c) == [kind |-> "dict", category |-> c]
NotADict == [kind |-> "not_dict", category |-> NoCategory]
Items(kind, entries) == [kind |-> kind, v |-> entries]

Config(min, max, items) ==
    [min_discount_percent |-> min, max_discount_percent |-> max,
     search_items |-> items]

\* default_config, lines 682-695.
default_config ==
    Config(CfgNum(MIN_DISCOUNT_PERCENT), CfgNum(MAX_DISCOUNT_PERCENT),
           Items("list",
                 << Task(Label("Electronics")), Task(Label("Electronics")),
                    Task(Label("HomeAndKitchen")), Task(Label("VideoGames")),
                    Task(Label("Beauty")), Task(Label("Fashion")),
                    Task(Label("Books")), Task(Label("HealthPersonalCare")) >>))

\* CONFIG_FILE: absent, blank, text that is no JSON, or a JSON value: an
\* object (value its fields) or an array, number, string or null.
NoValue == Config(CfgAbsent, CfgAbsent, Items("absent", <<>>))
ConfigFile(kind, value) == [kind |-> kind, value |-> value]

Labels == {"Electronics", "Kitchen", "Apparel", "Foo", "electronics"}
FileTasks ==
    {Task(Label(l)) : l \in Labels}
    \cup {Task(NoCategory), Task(Category("null", "")),
          Task(Category("unhashable", "")), NotADict}
FileLists == UNION {[1..n -> FileTasks] : n \in 0..MaxTasks}
FileObjects ==
    {Config(min, max, items) :
        min \in {CfgAbsent, CfgNum(0), CfgNum(MIN_DISCOUNT_PERCENT), CfgNum(50), CfgText},
        max \in {CfgAbsent, CfgNum(50), CfgNum(MAX_DISCOUNT_PERCENT), CfgText},
        items \in {Items("absent", <<>>), Items("number", <<>>)}
                  \cup {Items("list", l) : l \in FileLists}}
ConfigFiles ==
    {ConfigFile(k, NoValue) :
        k \in {"absent", "blank", "unparsable", "array", "number", "string", "null"}}
    \cup {ConfigFile("object", o) : o \in FileObjects}

\* A logger call of load_search_config: its level and what it is about, a
\* category replaced or the file.
Logged(level, about) == [level |-> level, about |-> about]
AboutFile(what) == Category("file", what)

\* The loop of lines 720-732 from entry i on: acc the filtered items, logs
\* the warnings so far; raised when an entry makes item.get or the
\* membership test raise.
RECURSIVE filter_items(_, _, _, _)
filter_items(i, entries, acc, logs) ==
    IF i > Len(entries) THEN [raised |-> FALSE, out |-> acc, logs |-> logs]
    ELSE LET e == entries[i]
         IN  IF e.kind # "dict" \/ e.category.kind = "unhashable"
             THEN [raised |-> TRUE, out |-> <<>>, logs |-> logs]
             ELSE IF e.category.kind = "absent"
                     \/ (e.category.kind = "str" /\ e.category.v \in CategoryKeys)
             THEN filter_items(i + 1, entries, Append(acc, e), logs)
             ELSE filter_items(i + 1, entries, Append(acc, Task(Label("All"))),
                               Append(logs, Logged("warning", e.category)))

\* load_search_config: the configuration it returns, the file it leaves and
\* its logger calls.
Loaded(c, file, logs) == [config |-> c, file |-> file, logs |-> logs]
DefaultFile == ConfigFile("object", default_config)

load_search_config(file) ==
    IF file.kind = "absent"
    THEN Loaded(default_config, DefaultFile, <<Logged("warning", AboutFile("absent"))>>)
    ELSE IF file.kind \in {"blank", "unparsable"}
    THEN Loaded(default_config, DefaultFile, <<Logged("warning", AboutFile("json"))>>)
    ELSE IF file.kind # "object"
    THEN Loaded(default_config, file, <<Logged("error", AboutFile("exception"))>>)
    ELSE LET c == file.value
             max == IF c.max_discount_percent.kind = "absent"
                    THEN CfgNum(MAX_DISCOUNT_PERCENT)
                    ELSE c.max_discount_percent
         IN  IF c.search_items.kind = "absent"
             THEN Loaded([c EXCEPT !.max_discount_percent = max], file, <<>>)
             ELSE IF c.search_items.kind # "list"
             THEN Loaded(default_config, file, <<Logged("error", AboutFile("exception"))>>)
             ELSE LET f == filter_items(1, c.search_items.v, <<>>, <<>>)
                  IN  IF f.raised
                      THEN Loaded(default_config, file,
                                  Append(f.logs, Logged("error", AboutFile("exception"))))
                      ELSE Loaded([c EXCEPT !.max_discount_percent = max,
                                            !.search_items = Items("list", f.out)],
                                  file, f.logs)

\* config.get(key, default) of lines 811-812 for a threshold.
threshold(field, default) == IF field.kind = "absent" THEN CfgNum(default) ELSE field

\* search_item.get('category', 'All'), line 827.
task_category(entry) ==
    IF entry.category.kind = "absent" THEN Label("All") ELSE entry.category

\* SearchIndex as sent without the mapping of line 296.
mapped_category_raw(category) == category.v

\* mapped_category = VALID_CATEGORIES.get(category, "All"), line 296.
mapped_category(category) ==
    IF category.kind = "str" /\ category.v \in CategoryKeys
    THEN VALID_CATEGORIES[category.v]
    ELSE "All"

NotLoaded == Config(CfgAbsent, CfgAbsent, Items("not_loaded", <<>>))

InitConfig ==
    /\ config_file \in ConfigFiles
    /\ config = NotLoaded
    /\ warnings = <<>>
    /\ search_index = <<>>
    /\ PostIdle
    /\ BootIdle
    /\ EvalIdle
    /\ ApiIdle
    /\ RunIdle
    /\ min_discount = MIN_DISCOUNT_PERCENT
    /\ max_discount = MAX_DISCOUNT_PERCENT

\* config = load_search_config(), line 806.
LoadSearchConfig ==
    /\ config = NotLoaded
    /\ LET l == load_search_config(config_file)
       IN  /\ config' = l.config
           /\ config_file' = l.file
           /\ warnings' = l.logs
    /\ UNCHANGED <<search_index, evalVars, cfgVars, apiVars, runVars, memVars,
                   postVars, bootVars>>

\* One turn of the loop of line 826: the search request of search_items
\* and, when a discounted item came back, the comparison of line 448 with
\* min_discount, which raises for a threshold that is no number; the
\* exception ends the run at line 899.
SearchTask ==
    /\ config # NotLoaded
    /\ ~aborted
    /\ config.search_items.kind = "list"
    /\ Len(search_index) < Len(config.search_items.v)
    /\ LET entry == config.search_items.v[Len(search_index) + 1]
       IN  search_index' = Append(search_index, mapped_category(task_category(entry)))
    /\ \E discounted \in BOOLEAN :
          aborted' = (/\ discounted
                      /\ threshold(config.min_discount_percent,
                                   MIN_DISCOUNT_PERCENT).kind # "num")
    /\ UNCHANGED <<config_file, config, warnings, evalVars, cfgVars, apiVars,
                   envVars, results_file, mainVars, memVars, postVars, bootVars,
                   log, loaded_asins, clean, prev_clean, api_failures,
                   post_failures>>

NextConfig == LoadSearchConfig \/ SearchTask

SpecConfig == InitConfig /\ [][NextConfig]_vars

\* ------------------------------------------------------------ claims
BothAmounts(info) == info.current.kind = "amount" /\ info.original.kind = "amount"

\* C1: every accepted record lies in the configured band,
\* min_discount_percent <= discount_percent < max_discount_percent, for the
\* configured values of both thresholds.
C1_AcceptedWithinConfiguredBand ==
    evaluated.tag = "accept" =>
        /\ PercentAtLeast(evaluated.current_price, evaluated.original_price, min_discount)
        /\ ~PercentAtLeast(evaluated.current_price, evaluated.original_price, max_discount)

\* C2: a detail with a missing current price, a missing original price, or
\* an original price <= the current price is never accepted.
C2_NoDiscountRejected ==
    (/\ evaluated.tag # "none"
     /\ \/ product_info.current.kind = "absent"
        \/ product_info.original.kind = "absent"
        \/ BothAmounts(product_info)
           /\ product_info.original.v <= product_info.current.v)
    => evaluated.tag \in {"skip", "raise"}

\* An Amazon listing priced at its own original price, with a minimum of 0%,
\* was evaluated and skipped.
C2_Witness ==
    /\ evaluated.tag = "skip"
    /\ is_amazon_merchant(product_info)
    /\ BothAmounts(product_info)
    /\ product_info.original.v = product_info.current.v
    /\ product_info.current.v > 0
    /\ min_discount = 0

\* C3: a detail with original > current * 3 is never accepted, whatever the
\* thresholds and whatever the percent test says; so every accepted record
\* has original <= current * 3.
C3_RatioRejects ==
    /\ (evaluated.tag # "none" /\ BothAmounts(product_info)
        /\ product_info.original.v > product_info.current.v * 3)
       => evaluated.tag # "accept"
    /\ evaluated.tag = "accept"
       => evaluated.original_price <= evaluated.current_price * 3

\* A listing over the 3x ratio whose percent is inside every band (at least
\* the minimum, below 80 and below the configured maximum) was rejected.
C3_Witness ==
    /\ evaluated.tag = "reject"
    /\ product_info.original.v > product_info.current.v * 3
    /\ PercentAtLeast(product_info.current.v, product_info.original.v, min_discount)
    /\ ~PercentAtLeast(product_info.current.v, product_info.original.v, MAX_DISCOUNT_PERCENT)
    /\ ~PercentAtLeast(product_info.current.v, product_info.original.v, max_discount)

\* C6: after any sequence of save_results calls the stored list holds at
\* most MAX_RESULTS_STORED entries.
C6_StoreWithinCap ==
    results_file.kind = "list" => Len(results_file.items) <= MAX_RESULTS_STORED

\* A successful save whose combined list was longer than the cap left
\* exactly MAX_RESULTS_STORED entries.
C6_Witness ==
    /\ log # <<>>
    /\ log[1].ok
    /\ log[1].n > MAX_RESULTS_STORED
    /\ new_results # <<>>
    /\ Len(results_file.items) = MAX_RESULTS_STORED

\* C8: call_pa_api issues at most MAX_RETRIES requests and comes to an end;
\* it returns None only after MAX_RETRIES requests that all failed, and
\* returns data only for a 200 response without an Errors field.
C8_RetryContract ==
    /\ Len(requests) <= MAX_RETRIES
    /\ attempt <= MAX_RETRIES
    /\ api_pc = "returned" \/ ENABLED NextApi
    /\ api_pc = "returned" <=> api_result # "pending"
    /\ api_result = "None" =>
          /\ Len(requests) = MAX_RETRIES
          /\ \A i \in DOMAIN requests : requests[i] # "ok"
    /\ api_result = "data" =>
          /\ requests # <<>>
          /\ requests[Len(requests)] = "ok"
          /\ \A i \in 1..(Len(requests) - 1) : requests[i] # "ok"

\* A call returned None after an Errors response, then one more failure,
\* then a rate limit on its last attempt.
C8_Witness ==
    /\ api_result = "None"
    /\ Len(requests) = MAX_RETRIES
    /\ requests[1] = "errors"
    /\ requests[MAX_RETRIES] = "rate_limit"

\* Publish attempts of this run on a target for an ASIN.
PublishCount(target, a) ==
    Cardinality({i \in DOMAIN log :
        log[i].e = "publish" /\ log[i].target = target /\ log[i].n = a})

\* C4: a complete run after a complete run on the same marketplace data
\* (no API call failing in either) makes no publish attempt and adds no record.
C4_SecondRunPublishesNothing ==
    (run >= 2 /\ pc = "done" /\ prev_clean /\ clean) =>
        /\ new_results = <<>>
        /\ \A i \in DOMAIN log : log[i].e # "publish"

\* C5: in a run, no ASIN of the loaded set gets a publish attempt, no ASIN
\* gets two attempts on one target, the membership test comes before the
\* attempts on an item, and an ASIN is in posted_asins once its attempts are done.
C5_SeenBeforePublish ==
    /\ \A i \in DOMAIN log : log[i].e = "publish" =>
          /\ log[i].n \notin loaded_asins
          /\ PublishCount(log[i].target, log[i].n) = 1
          /\ \/ log[i].n \in posted_asins
             \/ pc \in {"threads", "record"} /\ log[i].n = item.asin
    /\ pc \in {"twitter", "threads", "record"} => item.asin \notin posted_asins

\* A run without failures where ASIN 1 was loaded as seen and ASIN 2 came
\* back from both searches: 2 was published once, 1 not at all.
C5_Witness ==
    /\ pc = "done"
    /\ ~aborted
    /\ clean
    /\ search_results = <<<<3, 2>>, <<2, 5, 1>>>>
    /\ loaded_asins = {1}
    /\ PublishCount("twitter", 2) = 1
    /\ PublishCount("threads", 2) = 1
    /\ PublishCount("twitter", 1) = 0

\* C7: once load_previous_results has run, the result store is not corrupt.
C7_CorruptStoreOverwritten ==
    pc \in {"search", "filter", "item", "twitter", "threads", "record", "done"}
        => results_file.kind # "corrupt"

\* C9: a run ends with every search task searched and without the
\* exception handler of main having cut it short.
C9_RunReachesPersist ==
    pc = "done" =>
        /\ ~aborted
        /\ \A t \in DOMAIN SearchTasks :
              \E i \in DOMAIN log : log[i].e = "search" /\ log[i].n = t

\* The attempts main owes an ASIN: one per configured target.
OneAttemptPerTarget(a) ==
    /\ PublishCount("twitter", a) = (IF twitter_client THEN 1 ELSE 0)
    /\ PublishCount("threads", a) = (IF threads_cfg # "off" THEN 1 ELSE 0)

\* C10: every new record got exactly one publish attempt on each configured
\* target, whatever the other attempt came to.
C10_TargetsIndependent ==
    /\ \A k \in DOMAIN new_results : OneAttemptPerTarget(new_results[k].asin)
    /\ pc = "record" => OneAttemptPerTarget(item.asin)

\* A record whose Twitter attempt failed and whose Threads attempt, made
\* all the same, succeeded.
C10_Witness ==
    /\ twitter_client
    /\ \E k \in DOMAIN new_results :
          /\ ~new_results[k].posted_to_twitter
          /\ new_results[k].posted_to_threads
          /\ PublishCount("twitter", new_results[k].asin) = 1
          /\ PublishCount("threads", new_results[k].asin) = 1

\* C11: a record whose publish attempts all failed is in new_results with
\* both flags false, is in the result store when the run is over, and gets
\* no publish attempt in the next run.
C11_FailedRecordKept ==
    /\ \A i \in DOMAIN log :
          (log[i].e = "publish" /\ log[i].n \in posted_asins
           /\ \A j \in DOMAIN log :
                 (log[j].e = "publish" /\ log[j].n = log[i].n) => ~log[j].ok)
          => \E k \in DOMAIN new_results :
                new_results[k].asin = log[i].n /\ k \in FailedRecords
    /\ pc = "done" =>
          \A k \in FailedRecords :
              /\ results_file.kind = "list"
              /\ \E i \in DOMAIN results_file.items :
                    results_file.items[i] = new_results[k]
    /\ \A i \in DOMAIN log : log[i].e = "publish" => log[i].n \notin prev_failed

\* C12: the text post_to_twitter hands to create_tweet has at most 280
\* characters, and only the title is cut: the price lines and the URL are
\* in it in full.
C12_TweetWithinLimit ==
    post # NoPost =>
        /\ post.len <= TweetLimit
        /\ post.url = post_product.url
        /\ post.prices = GroupedLen(post_product.current_price)
                         + GroupedLen(post_product.original_price)
                         + GroupedLen(post_product.original_price
                                      - post_product.current_price)
        /\ post.title <= post_product.title

\* C13: in a dry run no post function makes a network request, the token
\* request included, and every publish attempt reports success.
C13_DryRunNoNetwork ==
    DRY_RUN =>
        \A i \in DOMAIN log :
            /\ log[i].e # "request"
            /\ log[i].e = "publish" => log[i].ok

\* C14: with a PA-API credential missing, the process exits with status 1
\* before main when --debug was not given, and does not exit when it was.
C14_ExitUnlessDebug ==
    (boot_pc # "import" /\ ~pa_api_ready(environ)) =>
        (boot_pc = "exit_1" <=> ~argv.debug)

\* The file holds a configuration of the documented shape: an object whose
\* thresholds, where given, are numbers and whose search_items, where
\* given, is a list of objects with hashable categories.
WellShaped(file) ==
    /\ file.kind = "object"
    /\ file.value.min_discount_percent.kind \in {"absent", "num"}
    /\ file.value.max_discount_percent.kind \in {"absent", "num"}
    /\ file.value.search_items.kind \in {"absent", "list"}
    /\ \A i \in DOMAIN file.value.search_items.v :
          /\ file.value.search_items.v[i].kind = "dict"
          /\ file.value.search_items.v[i].category.kind # "unhashable"

\* C15: for an absent, empty, unparsable or wrongly shaped file,
\* load_search_config returns default_config and logs a warning; and the
\* run that follows has numeric thresholds and is not ended by them.
C15_ConfigNeverFailsHard ==
    [][/\ (config = NotLoaded /\ ~WellShaped(config_file)) =>
             /\ config' = default_config
             /\ \E i \in DOMAIN warnings' :
                   warnings'[i].level \in {"warning", "error"}
       /\ threshold(config'.min_discount_percent, MIN_DISCOUNT_PERCENT).kind = "num"
       /\ threshold(config'.max_discount_percent, MAX_DISCOUNT_PERCENT).kind = "num"
       /\ ~aborted']_vars

\* The values of VALID_CATEGORIES: the SearchIndex values of the marketplace.
CanonicalCategories == {VALID_CATEGORIES[k] : k \in CategoryKeys}

\* The search tasks as the file gives them; those of default_config when
\* load_search_config falls back to it.
InputTasks ==
    IF /\ config_file.kind = "object"
       /\ config_file.value.search_items.kind = "list"
       /\ \A i \in DOMAIN config_file.value.search_items.v :
             /\ config_file.value.search_items.v[i].kind = "dict"
             /\ config_file.value.search_items.v[i].category.kind # "unhashable"
    THEN config_file.value.search_items.v
    ELSE default_config.search_items.v

\* C16: the SearchIndex of every search request is a canonical category:
\* that of the task's label when the label is a key of VALID_CATEGORIES
\* ("Kitchen" gives "HomeAndKitchen"), else "All" with a warning logged
\* about the label.
C16_CategoryNormalized ==
    \A i \in DOMAIN search_index :
        LET c == task_category(InputTasks[i])
        IN  /\ search_index[i] \in CanonicalCategories
            /\ IF c.kind = "str" /\ c.v \in CategoryKeys
               THEN /\ search_index[i] = VALID_CATEGORIES[c.v]
                    /\ c.v = "Kitchen" => search_index[i] = "HomeAndKitchen"
               ELSE /\ search_index[i] = "All"
                    /\ \E j \in DOMAIN warnings : warnings[j] = Logged("warning", c)

\* The tasks "Kitchen" and "Foo" of a file were searched as
\* "HomeAndKitchen" and, after a warning about "Foo", as "All".
C16_Witness ==
    /\ config_file.kind = "object"
    /\ config_file.value.search_items = Items("list", <<Task(Label("Kitchen")),
                                                        Task(Label("Foo"))>>)
    /\ search_index = <<"HomeAndKitchen", "All">>
    /\ warnings = <<Logged("warning", Label("Foo"))>>

\* The discount_percent of the record of ASIN a is greater than that of b.
HigherPercentAsin(a, b) ==
    LET x == Catalogue[a]
        y == Catalogue[b]
    IN  (x.original.v - x.current.v) * y.original.v
            > (y.original.v - y.current.v) * x.original.v

\* C17: no record is published in a run before a record of the same run
\* with a strictly higher discount_percent, whatever tasks they come from.
C17_PublishedInPercentOrder ==
    \A i, j \in DOMAIN log :
        (i < j /\ log[i].e = "publish" /\ log[j].e = "publish")
            => ~HigherPercentAsin(log[j].n, log[i].n)

\* C18: when every response so far was a 429, the waits taken are the
\* backoff alone: API_WAIT_TIME after the first attempt, doubled after each
\* further one, and none after the last attempt (no request follows it).
C18_ExponentialBackoff ==
    (requests # <<>> /\ \A i \in DOMAIN requests : requests[i] = "rate_limit")
        => sleeps = [i \in 1..Min(Len(requests), MAX_RETRIES - 1) |->
                        API_WAIT_TIME * Pow2(i - 1)]

\* What a file holds for a reader: whether it parses, and its records.
StoreContent(file) == [parses |-> file.kind # "corrupt", items |-> file.items]

\* C19: the store holds what it held before the run until the run is over,
\* also when the run is interrupted; and after the save every record of the
\* run is in it with the flags its publish attempts came to.
C19_StoreWrittenWhole ==
    /\ pc # "done" => StoreContent(results_file) = StoreContent(pre_file)
    /\ (pc = "done" /\ StoreContent(results_file) # StoreContent(pre_file)) =>
          \A k \in DOMAIN new_results :
              /\ \E i \in DOMAIN results_file.items :
                    results_file.items[i] = new_results[k]
              /\ new_results[k].posted_at = run
              /\ new_results[k].posted_to_twitter
                    = (\E i \in DOMAIN log :
                          log[i] = Ev("publish", "twitter", new_results[k].asin, TRUE))
              /\ new_results[k].posted_to_threads
                    = (\E i \in DOMAIN log :
                          log[i] = Ev("publish", "threads", new_results[k].asin, TRUE))

\* The records a reader finds in a file: none unless it is a list.
ExistingRecords(file) == IF file.kind = "list" THEN file.items ELSE <<>>

\* C20: after a successful save the store is the first MAX_RESULTS_STORED
\* entries of the new records, in their order, followed by the records the
\* file held before, in theirs.
C20_NewFirstOldCutFromEnd ==
    (log # <<>> /\ log[1].ok) =>
        LET old == ExistingRecords(pre_file)
            n == Len(new_results)
        IN  /\ results_file.kind = "list"
            /\ Len(results_file.items) = Min(n + Len(old), MAX_RESULTS_STORED)
            /\ \A i \in DOMAIN results_file.items :
                  results_file.items[i] = IF i <= n THEN new_results[i]
                                          ELSE old[i - n]

\* A save of three new records on a store of 199: the three come first,
\* then the first 197 of the old ones; the two oldest are gone.
C20_Witness ==
    /\ log # <<>>
    /\ log[1].ok
    /\ pre_file.kind = "list"
    /\ Len(pre_file.items) = MAX_RESULTS_STORED - 1
    /\ Len(new_results) = 3
    /\ results_file.items[1] = new_results[1]
    /\ results_file.items[4] = pre_file.items[1]
    /\ results_file.items[MAX_RESULTS_STORED] = pre_file.items[MAX_RESULTS_STORED - 3]

\* The places of the publish attempts in the log of the run.
PublishAt == {i \in DOMAIN log : log[i].e = "publish"}

\* C21: between any two publish attempts of a run there is a sleep.
C21_DelayBetweenAttempts ==
    \A i, j \in PublishAt :
        i < j => \E k \in (i + 1)..(j - 1) : log[k].e = "sleep"

\* Two records were published on both targets: four attempts in a row,
\* across targets and across items.
C21_Witness ==
    \E a, b \in Asins(new_results) :
        /\ a # b
        /\ \A x \in {a, b} :
              PublishCount("twitter", x) = 1 /\ PublishCount("threads", x) = 1

\* C22: when the store does not parse, save_results returns False and
\* leaves the file as it was: the file holds no record of the run and
\* still does not parse at the end of the run, where the next run finds it.
C22_CorruptStoreSaveFails ==
    pre_file.kind = "corrupt" =>
        /\ results_file = pre_file
        /\ \A i \in DOMAIN log : log[i].e = "save" => ~log[i].ok
        /\ \A k \in DOMAIN new_results :
              new_results[k].asin \notin Asins(results_file.items)

\* A run published a record, its save failed and left the unparsable file.
C22_Witness ==
    /\ pc = "done"
    /\ \E i \in DOMAIN log : log[i].e = "publish" /\ log[i].ok
    /\ \E i \in DOMAIN log : log[i].e = "save" /\ ~log[i].ok
    /\ results_file.kind = "corrupt"
    /\ new_results # <<>>

\* C23: every accepted item that was not seen is in new_results and in
\* posted_asins once the loop has passed it, whatever targets were tried;
\* with no target configured its flags are both false and it is in the
\* store when the run is over; and no run records again what the store held
\* when it began.
C23_UnpublishedRecordKept ==
    /\ pc = "item" =>
          \A i \in 1..(idx - 1) :
              /\ discounted_items[i].asin \in posted_asins
              /\ \/ discounted_items[i].asin \in loaded_asins
                 \/ discounted_items[i].asin \in Asins(new_results)
    /\ (~twitter_client /\ threads_cfg = "off") =>
          \A k \in DOMAIN new_results :
              /\ ~new_results[k].posted_to_twitter
              /\ ~new_results[k].posted_to_threads
              /\ PublishCount("twitter", new_results[k].asin) = 0
              /\ PublishCount("threads", new_results[k].asin) = 0
              /\ pc = "done" =>
                    /\ results_file.kind = "list"
                    /\ \E i \in DOMAIN results_file.items :
                          results_file.items[i] = new_results[k]
    /\ \A k \in DOMAIN new_results : new_results[k].asin \notin Asins(pre_file.items)

\* C24: in a dry run every record has the flag of each configured target
\* true and is in the store when the run is over; and a run does not
\* publish what the store held when it began, written by a dry run or not.
C24_DryRunRecordsKept ==
    /\ DRY_RUN =>
          \A k \in DOMAIN new_results :
              /\ twitter_client => new_results[k].posted_to_twitter
              /\ threads_cfg # "off" => new_results[k].posted_to_threads
              /\ new_results[k].asin \in posted_asins
              /\ pc = "done" =>
                    /\ results_file.kind = "list"
                    /\ \E i \in DOMAIN results_file.items :
                          results_file.items[i] = new_results[k]
    /\ \A i \in DOMAIN log :
          log[i].e = "publish" => log[i].n \notin Asins(pre_file.items)

\* C25: when main ends in its except clause, save_results was not called,
\* the store holds what it held when the run began (an absent file may have
\* become an empty list), and no record published in the run is in it.
C25_AbortDropsRecords ==
    aborted =>
        /\ \A i \in DOMAIN log : log[i].e # "save"
        /\ StoreContent(results_file) = StoreContent(pre_file)
        /\ \A i \in DOMAIN log :
              log[i].e = "publish" => log[i].n \notin Asins(results_file.items)
        /\ \A k \in DOMAIN new_results :
              new_results[k].asin \notin Asins(results_file.items)

C25_Witness ==
    /\ aborted
    /\ pc = "done"
    /\ new_results # <<>>
    /\ \E i \in DOMAIN log : log[i].e = "publish" /\ log[i].ok

\* The task whose search is the last one before event i of the log.
TaskOf(i) ==
    LET k == CHOOSE k \in 1..(i - 1) :
                 /\ log[k].e = "search"
                 /\ \A m \in (k + 1)..(i - 1) : log[m].e # "search"
    IN  log[k].n

\* The place of ASIN a in the list the search of task t returned.
PlaceIn(t, a) == CHOOSE p \in DOMAIN search_results[t] : search_results[t][p] = a

\* C26: the publish attempts between two searches are those of one task:
\* they go by non-increasing discount_percent, records of equal percent in
\* the order the search returned them; and when the next search is called
\* every accepted record of the task before it has been dealt with.
C26_TaskOrderStable ==
    /\ \A i, j \in PublishAt :
          (/\ i < j
           /\ log[i].n # log[j].n
           /\ \A m \in i..j : log[m].e # "search")
              => /\ ~HigherPercentAsin(log[j].n, log[i].n)
                 /\ ~HigherPercentAsin(log[i].n, log[j].n)
                       => PlaceIn(TaskOf(i), log[i].n) < PlaceIn(TaskOf(i), log[j].n)
    /\ \A i \in PublishAt :
          LET t == TaskOf(i)
          IN  \E p \in DOMAIN search_results[t] : search_results[t][p] = log[i].n
    /\ pc \in {"item", "twitter", "threads", "record"} =>
          \A p, q \in DOMAIN discounted_items :
              p < q =>
                  /\ ~HigherPercent(discounted_items[q], discounted_items[p])
                  /\ ~HigherPercent(discounted_items[p], discounted_items[q])
                        => PlaceIn(task, discounted_items[p].asin)
                               < PlaceIn(task, discounted_items[q].asin)
    /\ pc \in {"search", "filter"} =>
          \A i \in DOMAIN discounted_items : discounted_items[i].asin \in posted_asins

C26_Witness ==
    \E i, j \in DOMAIN log :
        /\ i < j
        /\ log[i] = Ev("publish", "twitter", 3, TRUE)
        /\ log[j] = Ev("publish", "twitter", 2, TRUE)
        /\ \A m \in i..j : log[m].e # "search"
        /\ \E k \in DOMAIN log : k > j /\ log[k].e = "search"

====
